---------------------------- MODULE Spec2Model ----------------------------
(***************************************************************************)
(* A model of the jail custody checker: the name normaliser, the page      *)
(* extraction, the rate limiter, the roster acquisition with its worker    *)
(* pool and cache, and the custody matcher (src/src/jail_api.py), driven   *)
(* by the batch loop of src/src/main.py; the verdict and report classes    *)
(* (src/src/models.py) and the name parser (src/src/parsers.py).           *)
(*                                                                         *)
(* Python strings are sequences of one-character strings, so that lower(), *)
(* strip(), split() and join() are computed and not assumed.  Python's     *)
(* None is the value None below; an Optional cache slot is the empty       *)
(* sequence (None) or a one-element sequence holding the value.            *)
(***************************************************************************)
EXTENDS Integers, Sequences, FiniteSets, TLC

(***************************************************************************)
(* Strings                                                                 *)
(***************************************************************************)

\* Python's None for Optional[str] fields: no string holds this element.
None == <<"<None>">>

SP == " "

Whitespace == {SP}

UpperLetters == <<"A","B","C","D","E","F","G","H","I","J","K","L","M",
                  "N","O","P","Q","R","S","T","U","V","W","X","Y","Z">>

LowerLetters == <<"a","b","c","d","e","f","g","h","i","j","k","l","m",
                  "n","o","p","q","r","s","t","u","v","w","x","y","z">>

IsUpper(c) == \E i \in 1..Len(UpperLetters) : UpperLetters[i] = c

IsLower(c) == \E i \in 1..Len(LowerLetters) : LowerLetters[i] = c

\* str.lower() on one character
LowerChar(c) ==
    IF IsUpper(c)
    THEN LowerLetters[CHOOSE i \in 1..Len(UpperLetters) : UpperLetters[i] = c]
    ELSE c

\* the other case of a letter (used to build inputs that differ in case only)
SwapCaseChar(c) ==
    IF IsUpper(c)
    THEN LowerLetters[CHOOSE i \in 1..Len(UpperLetters) : UpperLetters[i] = c]
    ELSE IF IsLower(c)
    THEN UpperLetters[CHOOSE i \in 1..Len(LowerLetters) : LowerLetters[i] = c]
    ELSE c

\* str.lower()
Lower(s) == [i \in 1..Len(s) |-> LowerChar(s[i])]

SetMin(S) == CHOOSE x \in S : \A y \in S : x <= y

SetMax(S) == CHOOSE x \in S : \A y \in S : x >= y

\* str.strip(): leading and trailing whitespace removed
Strip(s) ==
    LET keep == {i \in 1..Len(s) : s[i] \notin Whitespace}
    IN  IF keep = {} THEN <<>> ELSE SubSeq(s, SetMin(keep), SetMax(keep))

\* str.split() without a separator: the maximal runs of non-whitespace
RECURSIVE SplitFrom(_, _, _)
SplitFrom(s, i, cur) ==
    IF i > Len(s)
    THEN IF cur = <<>> THEN <<>> ELSE <<cur>>
    ELSE IF s[i] \in Whitespace
         THEN (IF cur = <<>> THEN <<>> ELSE <<cur>>) \o SplitFrom(s, i + 1, <<>>)
         ELSE SplitFrom(s, i + 1, Append(cur, s[i]))

Split(s) == SplitFrom(s, 1, <<>>)

\* sep.join(parts)
RECURSIVE Join(_, _)
Join(sep, parts) ==
    IF parts = <<>> THEN <<>>
    ELSE IF Len(parts) = 1 THEN parts[1]
    ELSE parts[1] \o sep \o Join(sep, Tail(parts))

\* [f(p) for p in parts if p]: the non-empty parts, in order
RECURSIVE NonEmptyParts(_)
NonEmptyParts(parts) ==
    IF parts = <<>> THEN <<>>
    ELSE (IF parts[1] # <<>> THEN <<parts[1]>> ELSE <<>>) \o NonEmptyParts(Tail(parts))

(***************************************************************************)
(* JailAPIClient._normalize_name                                           *)
(***************************************************************************)

\* `if middle:` is the truth value of the string: non-empty, whitespace or not
normalize_parts(last, first, middle) ==
    <<last, first>> \o (IF middle # <<>> THEN <<middle>> ELSE <<>>)

normalize_name(last, first, middle) ==
    LET parts == NonEmptyParts(normalize_parts(last, first, middle))
    IN  Join(<<SP>>, [i \in 1..Len(parts) |-> Strip(Lower(parts[i]))])

(***************************************************************************)
(* Names used as inputs                                                    *)
(***************************************************************************)

John  == <<"J","o","h","n">>
Jon   == <<"J","o","n">>
Smith == <<"S","m","i","t","h">>
Jane  == <<"J","a","n","e">>
Doe   == <<"D","o","e">>
Lee   == <<"L","e","e">>
Jo    == <<"J","o">>
Q     == <<"Q">>
X     == <<"X">>
Cher  == <<"C","h","e","r">>

(***************************************************************************)
(* JailAPIClient._fetch_single_page: the response and its booking cards    *)
(***************************************************************************)

\* The labels of a card's detail rows.  The code tests `'Booked:' in label`
\* and so on; a label here is one of the four known texts or another text
\* that contains none of them.
LabelBooked == "Booked:"
LabelArrest == "Arrest Date/Time:"
LabelAgency == "Arresting Agency:"
LabelBond   == "Bond Total:"
LabelOther  == "Height:"

\* One div.booking-card of the response markup:
\*   h5       the text of the name header, or None when the card has no h5
\*   rows     the detail rows, each <<label, value>>
\*   charges  the texts of the charge descriptions
\*   img      the src of img.booking-mugshot, or None
\*   bid      the digits after "BookingID=" in the details link, or None
\*   raises   whether extracting the card's details raises an exception
Card(h5, rows, charges, img, bid, raises) ==
    [h5 |-> h5, rows |-> rows, charges |-> charges, img |-> img, bid |-> bid,
     raises |-> raises]

\* a merge in which the entries already held win
DictUpdateKeepFirst(a, b) ==
    [k \in DOMAIN a \cup DOMAIN b |-> IF k \in DOMAIN a THEN a[k] ELSE b[k]]

\* dict.update / repeated item assignment: the entries of b win
DictUpdate(a, b) ==
    [k \in DOMAIN a \cup DOMAIN b |-> IF k \in DOMAIN b THEN b[k] ELSE a[k]]

EmptyDict == <<>>

\* the value of the last row whose label is `label`, else None
RECURSIVE RowValue(_, _)
RowValue(rows, label) ==
    IF rows = <<>> THEN None
    ELSE LET r == rows[Len(rows)]
         IN  IF r[1] = label THEN Strip(r[2])
             ELSE RowValue(SubSeq(rows, 1, Len(rows) - 1), label)

\* '; '.join(charges_list) if charges_list else None
JoinCharges(charges) ==
    IF charges = <<>> THEN None
    ELSE Join(<<";", SP>>, [i \in 1..Len(charges) |-> Strip(charges[i])])

\* the two lookup keys of a roster record, full key first
CardKeysFullOnly(first_name, middle_name, last_name) ==
    << normalize_name(last_name, first_name, middle_name) >>

CardKeys(first_name, middle_name, last_name) ==
    << normalize_name(last_name, first_name, middle_name),
       normalize_name(last_name, first_name, <<>>) >>

\* the name components of a display name of two or more tokens
NameFirst(name_parts) == name_parts[1]

NameLast(name_parts) == name_parts[Len(name_parts)]

NameMiddle(name_parts) ==
    IF Len(name_parts) > 2
    THEN Join(<<SP>>, SubSeq(name_parts, 2, Len(name_parts) - 1))
    ELSE <<>>

InmateData(card, full_name, name_parts) ==
    [full_name        |-> full_name,
     first_name       |-> NameFirst(name_parts),
     middle_name      |-> NameMiddle(name_parts),
     last_name        |-> NameLast(name_parts),
     booking_date     |-> RowValue(card.rows, LabelBooked),
     arrest_datetime  |-> RowValue(card.rows, LabelArrest),
     arresting_agency |-> RowValue(card.rows, LabelAgency),
     bond_amount      |-> RowValue(card.rows, LabelBond),
     charges          |-> JoinCharges(card.charges),
     mugshot_url      |-> card.img,
     booking_number   |-> card.bid]

\* an iteration in which a block that is dropped discards the records
\* extracted before it
ExtractCardAborting(page_inmates, card) ==
    IF card.h5 = None \/ Len(Split(Strip(card.h5))) < 2 \/ card.raises THEN EmptyDict
    ELSE LET name_parts == Split(Strip(card.h5))
             keys == CardKeys(NameFirst(name_parts), NameMiddle(name_parts),
                              NameLast(name_parts))
         IN  DictUpdate(page_inmates, [k \in {keys[i] : i \in 1..Len(keys)} |->
                                          InmateData(card, Strip(card.h5), name_parts)])

\* one iteration of `for card in booking_cards`
ExtractCard(page_inmates, card) ==
    IF card.h5 = None THEN page_inmates
    ELSE LET full_name  == Strip(card.h5)
             name_parts == Split(full_name)
         IN  IF Len(name_parts) < 2 THEN page_inmates
             ELSE IF card.raises THEN page_inmates
             ELSE LET keys == CardKeys(NameFirst(name_parts), NameMiddle(name_parts),
                                       NameLast(name_parts))
                      data == InmateData(card, full_name, name_parts)
                  IN  DictUpdate(page_inmates, [k \in {keys[i] : i \in 1..Len(keys)} |-> data])

RECURSIVE ExtractCards(_, _)
ExtractCards(page_inmates, cards) ==
    IF cards = <<>> THEN page_inmates
    ELSE ExtractCards(ExtractCard(page_inmates, cards[1]), Tail(cards))

\* A response of the endpoint: an exception raised by session.post, or a
\* status code with the booking cards of its markup.
Response(exc, status, cards) == [exc |-> exc, status |-> status, cards |-> cards]

\* a fetch that reads the booking cards whatever the status code is
fetch_single_page_any_status(resp) ==
    IF resp.cards = <<>> THEN EmptyDict
    ELSE ExtractCards(EmptyDict, resp.cards)

\* what _fetch_single_page returns for a response that did not raise
fetch_single_page(resp) ==
    IF resp.status # 200 THEN EmptyDict
    ELSE IF resp.cards = <<>> THEN EmptyDict
    ELSE ExtractCards(EmptyDict, resp.cards)

(***************************************************************************)
(* Booking cards used as inputs                                            *)
(***************************************************************************)

Date1 == <<"1","/","2">>
Date2 == <<"3","/","4">>
Bond1 == <<"$","5">>
Url1  == <<"u","1">>
Bid1  == <<"7">>
Bid2  == <<"8">>
Bid3  == <<"9">>
Charge1 == <<"D","U","I">>
Charge2 == <<"F","T","A">>

JohnQSmith == John \o <<SP>> \o Q \o <<SP>> \o Smith
JohnXSmith == John \o <<SP>> \o X \o <<SP>> \o Smith
JohnSmith  == John \o <<SP>> \o Smith
JaneDoePadded == <<SP>> \o <<"J","A","N","E">> \o <<SP, SP>> \o <<"D","O","E">> \o <<SP>>

CardJohnQSmith ==
    Card(JohnQSmith,
         << <<LabelBooked, Date1>>, <<LabelOther, Date2>>, <<LabelBond, Bond1>> >>,
         <<Charge1, Charge2>>, Url1, Bid1, FALSE)

CardJohnSmith == Card(JohnSmith, << <<LabelBooked, Date2>> >>, <<>>, None, Bid2, FALSE)

CardJohnXSmith == Card(JohnXSmith, <<>>, <<Charge2>>, None, Bid3, FALSE)

CardJaneDoe == Card(JaneDoePadded, <<>>, <<>>, None, None, FALSE)

CardNoHeader == Card(None, << <<LabelBooked, Date1>> >>, <<Charge1>>, Url1, Bid3, FALSE)

CardOneToken == Card(Cher, <<>>, <<>>, None, Bid3, FALSE)

CardRaises == Card(JohnSmith, <<>>, <<>>, None, Bid3, TRUE)

Cards == {CardJohnQSmith, CardJohnSmith, CardJohnXSmith, CardJaneDoe,
          CardNoHeader, CardOneToken, CardRaises}

RECURSIVE SeqsUpTo(_, _)
SeqsUpTo(S, n) ==
    IF n = 0 THEN {<<>>}
    ELSE LET shorter == SeqsUpTo(S, n - 1)
         IN  shorter \cup {Append(q, x) : q \in {r \in shorter : Len(r) = n - 1}, x \in S}

JoLee == Jo \o <<SP>> \o Lee

CardJoLee == Card(JoLee, <<>>, <<>>, None, Bid3, FALSE)

(***************************************************************************)
(* models.Defendant and models.CustodyResult                               *)
(***************************************************************************)

Defendant(last_name, first_name, middle_name, matter_number, case_number) ==
    [last_name |-> last_name, first_name |-> first_name, middle_name |-> middle_name,
     matter_number |-> matter_number, case_number |-> case_number]

\* the truth value of an Optional[str]
Truthy(s) == s # None /\ s # <<>>

\* Defendant.full_name
full_name(d) ==
    IF Truthy(d.middle_name)
    THEN d.last_name \o <<",", SP>> \o d.first_name \o <<SP>> \o d.middle_name
    ELSE d.last_name \o <<",", SP>> \o d.first_name

\* Defendant.search_name: (first, middle, last)
search_name(d) ==
    << d.first_name, IF Truthy(d.middle_name) THEN d.middle_name ELSE <<>>, d.last_name >>

CustodyLocation == <<"D","C","D","C">>

\* a verdict that does not carry the subject's case metadata
CustodyResultNoMetadata(d, in_custody, booking_number, booking_date, custody_location, charges_at_booking, bond_amount, mugshot_url, error_message) ==
    [defendant_name     |-> full_name(d),
     matter_number      |-> None,
     case_number        |-> None,
     in_custody         |-> in_custody,
     booking_number     |-> booking_number,
     booking_date       |-> booking_date,
     custody_location   |-> custody_location,
     charges_at_booking |-> charges_at_booking,
     bond_amount        |-> bond_amount,
     mugshot_url        |-> mugshot_url,
     error_message      |-> error_message]

CustodyResult(d, in_custody, booking_number, booking_date, custody_location, charges_at_booking, bond_amount, mugshot_url, error_message) ==
    [defendant_name     |-> full_name(d),
     matter_number      |-> d.matter_number,
     case_number        |-> d.case_number,
     in_custody         |-> in_custody,
     booking_number     |-> booking_number,
     booking_date       |-> booking_date,
     custody_location   |-> custody_location,
     charges_at_booking |-> charges_at_booking,
     bond_amount        |-> bond_amount,
     mugshot_url        |-> mugshot_url,
     error_message      |-> error_message]

Matter1 == <<"M","1">>
Case1   == <<"G","S","1">>

SubjJohnSmith  == Defendant(Smith, John, <<>>, Matter1, Case1)
SubjJonSmith   == Defendant(Smith, Jon, <<>>, None, Case1)
SubjJohnQSmith == Defendant(Smith, John, Q, Matter1, None)
SubjJaneXDoe   == Defendant(Doe, Jane, X, None, None)
SubjJoLee      == Defendant(Lee, Jo, None, None, None)
SubjJohnXSmith == Defendant(Smith, John, X, None, None)

Subjects == {SubjJohnSmith, SubjJonSmith, SubjJohnQSmith, SubjJaneXDoe, SubjJoLee,
             SubjJohnXSmith}

(***************************************************************************)
(* JailAPIClient.check_custody: the lookup in an acquired roster           *)
(***************************************************************************)

LookupKeysFullOnly(d) ==
    LET n == search_name(d) IN << normalize_name(n[3], n[1], n[2]) >>

\* the two keys in the other order
LookupKeysWithoutMiddleFirst(d) ==
    LET n == search_name(d)
    IN  << normalize_name(n[3], n[1], <<>>), normalize_name(n[3], n[1], n[2]) >>

\* lookup_keys: the full key, then the key without the middle name
LookupKeys(d) ==
    LET n == search_name(d)
    IN  << normalize_name(n[3], n[1], n[2]), normalize_name(n[3], n[1], <<>>) >>

\* a positive verdict that does not name the detention center
MatchedResultNoLocation(d, inmate) ==
    CustodyResult(d, TRUE, inmate.booking_number, inmate.booking_date, None,
                  inmate.charges, inmate.bond_amount, inmate.mugshot_url, None)

MatchedResult(d, inmate) ==
    CustodyResult(d, TRUE, inmate.booking_number, inmate.booking_date, CustodyLocation,
                  inmate.charges, inmate.bond_amount, inmate.mugshot_url, None)

NotInCustodyResult(d) ==
    CustodyResult(d, FALSE, None, None, None, None, None, None, None)

ErrorResultSilent(d, e) == NotInCustodyResult(d)

\* the verdict of the except branch: f"Error: {str(e)}"
ErrorResult(d, e) ==
    CustodyResult(d, FALSE, None, None, None, None, None, None,
                  <<"E","r","r","o","r",":",SP>> \o e)

\* `for key in lookup_keys: if key in inmates: return ...`, then the negative verdict
LookupResult(d, roster) ==
    LET keys == LookupKeys(d)
        hits == {i \in 1..Len(keys) : keys[i] \in DOMAIN roster}
    IN  IF hits = {} THEN NotInCustodyResult(d)
        ELSE MatchedResult(d, roster[keys[SetMin(hits)]])

(***************************************************************************)
(* State                                                                   *)
(***************************************************************************)

VARIABLES
    \* the client object (JailAPIClient.__init__)
    session_initialized,  \* self._session_initialized
    current_inmates,      \* self._current_inmates: <<>> is None, <<r>> the roster r
    last_request_time,    \* self.last_request_time
    rate_limit_lock,      \* self._rate_limit_lock: 0 when free, else the holder
    \* the environment
    server,               \* the endpoint: which pages hold data, which fetches fail
    input,                \* the subjects the callers may pass and how many calls each makes
    now,                  \* time.time(), in ticks
    \* what was sent to the endpoint
    handshake_requests,   \* GETs of the main page issued so far
    posted,               \* per caller thread: page index -> POSTs issued for it
    \* check_custody_for_all / check_custody / _fetch_current_confinements, per caller thread
    pc,                   \* where the thread is
    calls,                \* check_custody calls made so far
    defendants,           \* the subjects of the calls that have returned, in order
    results,              \* the list `results` of check_custody_for_all
    roster_returned,      \* <<>>, or <<the last value _fetch_current_confinements returned>>
    inmates,              \* the local dictionary `inmates` being built
    batch_num,            \* the loop variable batch_num
    current_batch_start,  \* current_batch_start
    futures,              \* future_to_page: page -> the future's state and result
    empty_pages,          \* empty_pages
    pages_with_data,      \* pages_with_data
    \* _respect_rate_limit, per rate-limited worker
    rl_pc,                \* where the worker is in _respect_rate_limit
    rl_wake,              \* when its time.sleep ends
    rl_prev_grant,        \* the grant before the last one (0: none)
    rl_grants,            \* grants so far
    \* _normalize_name on two inputs
    nm_a,       \* a first argument triple <<last, first, middle>>
    nm_b,       \* a second triple, differing from nm_a in case and padding only
    nm_pads,    \* how many whitespace characters were added to nm_b
    nm_out,     \* <<>> until computed, then <<output for nm_a, output for nm_b>>
    \* _fetch_single_page on one response
    pg_resp,    \* the response of the endpoint
    pg_out,     \* <<>> until the page is fetched, then <<the dictionary returned>>
    \* a CustodyReport and what its properties return
    rp_defendants_checked,  \* CustodyReport.defendants_checked
    rp_custody_results,     \* CustodyReport.custody_results
    rp_out,     \* <<>> until read, then <<the values of the report's properties>>
    \* parse_defendant_name on one string
    ps_name_str,  \* the argument name_str
    ps_out        \* <<>> until parsed, then <<the tuple returned>>

normVars == <<nm_a, nm_b, nm_pads, nm_out>>

pageVars == <<pg_resp, pg_out>>

reportVars == <<rp_defendants_checked, rp_custody_results, rp_out>>

parseVars == <<ps_name_str, ps_out>>

rateVars == <<last_request_time, rate_limit_lock, now, rl_pc, rl_wake, rl_prev_grant, rl_grants>>

cacheVars == <<session_initialized, current_inmates>>

envVars == <<server, input>>

sentVars == <<handshake_requests, posted>>

callVars == <<pc, calls, defendants, results, roster_returned>>

acqVars == <<inmates, batch_num, current_batch_start, futures, empty_pages, pages_with_data>>

clientVars == <<cacheVars, envVars, sentVars, callVars, acqVars>>

vars == <<clientVars, rateVars, normVars, pageVars, reportVars, parseVars>>

(***************************************************************************)
(* Program constants and model bounds                                      *)
(***************************************************************************)

\* batch_size: 20 in the source; the model runs the same loop on smaller batches
batch_size == 4

max_batches == 3

\* a pool with a worker for every page of a batch
max_workers_per_page == batch_size

max_workers == 3

\* delay_seconds, in ticks of the clock (a constructor argument)
delay_seconds == 2

\* bound: subjects one caller passes
MaxDefendants == 2

\* bound: workers calling the rate limiter
NumRateWorkers == 3

\* bound: the clock stops here
MaxTime == 6

\* bound: whitespace characters added around the components of one input
MaxPad == 2

\* bound: booking cards on one page
MaxCards == 2

\* the pages the endpoint can be asked for: every page the loop can reach, and one beyond
NumPages == max_batches * batch_size + 1

(***************************************************************************)
(* The state of each part when a specification does not exercise it        *)
(***************************************************************************)

NormIdle ==
    /\ nm_a = <<Lee, Jo, <<>>>>
    /\ nm_b = nm_a
    /\ nm_pads = 0
    /\ nm_out = <<>>

PageIdle ==
    /\ pg_resp = Response(FALSE, 200, <<>>)
    /\ pg_out = <<>>

ReportIdle ==
    /\ rp_defendants_checked = <<>>
    /\ rp_custody_results = <<>>
    /\ rp_out = <<>>

ParseIdle ==
    /\ ps_name_str = <<>>
    /\ ps_out = <<>>

RateIdle ==
    /\ now = 1
    /\ rl_pc = <<>>
    /\ rl_wake = <<>>
    /\ rl_prev_grant = 0
    /\ rl_grants = 0

\* JailAPIClient.__init__
ClientInit ==
    /\ session_initialized = FALSE
    /\ current_inmates = <<>>
    /\ last_request_time = 0
    /\ rate_limit_lock = 0
    /\ handshake_requests = 0

Server(last_page, fail, fail_kind) ==
    [last_page |-> last_page, fail |-> fail, fail_kind |-> fail_kind]

ThreadsInit(threads) ==
    /\ pc = [t \in threads |-> "idle"]
    /\ calls = [t \in threads |-> 0]
    /\ defendants = [t \in threads |-> <<>>]
    /\ results = [t \in threads |-> <<>>]
    /\ roster_returned = [t \in threads |-> <<>>]
    /\ posted = [t \in threads |-> [p \in 1..NumPages |-> 0]]
    /\ inmates = [t \in threads |-> EmptyDict]
    /\ batch_num = [t \in threads |-> 0]
    /\ current_batch_start = [t \in threads |-> 1]
    /\ futures = [t \in threads |-> <<>>]
    /\ empty_pages = [t \in threads |-> 0]
    /\ pages_with_data = [t \in threads |-> 0]

ClientIdle ==
    /\ ClientInit
    /\ server = Server(0, {}, "none")
    /\ input = [subjects |-> {}, max_calls |-> 0]
    /\ ThreadsInit({})

(***************************************************************************)
(* _normalize_name on two inputs that differ in case and padding           *)
(***************************************************************************)

NormInputs ==
    { <<l, f, m>> : l \in {Lee}, f \in {Jo}, m \in {<<>>, Q, <<SP>>} }

InitNorm ==
    /\ nm_a \in NormInputs
    /\ nm_b = nm_a
    /\ nm_pads = 0
    /\ nm_out = <<>>
    /\ PageIdle
    /\ RateIdle
    /\ ClientIdle
    /\ ReportIdle
    /\ ParseIdle

\* the caller passes the same component in the other letter case
NmSwapCase(i, j) ==
    /\ nm_out = <<>>
    /\ j \in 1..Len(nm_b[i])
    /\ IsUpper(nm_b[i][j]) \/ IsLower(nm_b[i][j])
    /\ nm_b' = [nm_b EXCEPT ![i][j] = SwapCaseChar(nm_b[i][j])]
    /\ UNCHANGED <<nm_a, nm_pads, nm_out, pageVars, reportVars, parseVars, rateVars, clientVars>>

\* the caller passes the same component with whitespace before or after it
NmPad(i, left) ==
    /\ nm_out = <<>>
    /\ nm_pads < MaxPad
    /\ nm_b' = [nm_b EXCEPT ![i] = IF left THEN <<SP>> \o nm_b[i] ELSE nm_b[i] \o <<SP>>]
    /\ nm_pads' = nm_pads + 1
    /\ UNCHANGED <<nm_a, nm_out, pageVars, reportVars, parseVars, rateVars, clientVars>>

NmNormalize ==
    /\ nm_out = <<>>
    /\ nm_out' = << normalize_name(nm_a[1], nm_a[2], nm_a[3]),
                    normalize_name(nm_b[1], nm_b[2], nm_b[3]) >>
    /\ UNCHANGED <<nm_a, nm_b, nm_pads, pageVars, reportVars, parseVars, rateVars, clientVars>>

NextNorm ==
    \/ \E i \in 1..3, j \in 1..3 : NmSwapCase(i, j)
    \/ \E i \in 1..3, left \in BOOLEAN : NmPad(i, left)
    \/ NmNormalize

SpecNorm == InitNorm /\ [][NextNorm]_vars

(***************************************************************************)
(* _fetch_single_page on one response                                      *)
(***************************************************************************)

InitPage ==
    /\ pg_resp \in {Response(FALSE, st, cs) : st \in {200, 500}, cs \in SeqsUpTo(Cards, MaxCards)}
    /\ pg_out = <<>>
    /\ NormIdle
    /\ RateIdle
    /\ ClientIdle
    /\ ReportIdle
    /\ ParseIdle

PgFetch ==
    /\ pg_out = <<>>
    /\ pg_out' = <<fetch_single_page(pg_resp)>>
    /\ UNCHANGED <<pg_resp, normVars, rateVars, clientVars, reportVars, parseVars>>

NextPage == PgFetch

SpecPage == InitPage /\ [][NextPage]_vars

(***************************************************************************)
(* JailAPIClient._respect_rate_limit, called by concurrent workers          *)
(***************************************************************************)

RateWorkers == 1..NumRateWorkers

InitRate ==
    /\ now = 1
    /\ rl_pc = [w \in RateWorkers |-> "idle"]
    /\ rl_wake = [w \in RateWorkers |-> 0]
    /\ rl_prev_grant = 0
    /\ rl_grants = 0
    /\ ClientIdle
    /\ NormIdle
    /\ PageIdle
    /\ ReportIdle
    /\ ParseIdle

\* `with self._rate_limit_lock:` admits a worker when no worker holds the lock
LockAdmitsAlways(w) == TRUE

LockAdmits(w) == rate_limit_lock = 0

\* sleep_time = self.delay_seconds - elapsed
SleepTimeShort(elapsed) == delay_seconds - elapsed - 1

SleepTime(elapsed) == delay_seconds - elapsed

\* the worker enters the `with` block
RlAcquire(w) ==
    /\ rl_pc[w] = "idle"
    /\ LockAdmits(w)
    /\ rate_limit_lock' = w
    /\ rl_pc' = [rl_pc EXCEPT ![w] = "locked"]
    /\ UNCHANGED <<last_request_time, now, rl_wake, rl_prev_grant, rl_grants,
                   clientVars, normVars, pageVars, reportVars, parseVars>>

\* it reads the clock and decides whether to sleep, and until when
RlCheck(w) ==
    /\ rl_pc[w] = "locked"
    /\ LET elapsed == now - last_request_time
       IN  IF last_request_time > 0 /\ elapsed < delay_seconds
           THEN /\ rl_pc' = [rl_pc EXCEPT ![w] = "sleeping"]
                /\ rl_wake' = [rl_wake EXCEPT ![w] = now + SleepTime(elapsed)]
           ELSE /\ rl_pc' = [rl_pc EXCEPT ![w] = "waking"]
                /\ UNCHANGED rl_wake
    /\ UNCHANGED <<last_request_time, rate_limit_lock, now, rl_prev_grant, rl_grants,
                   clientVars, normVars, pageVars, reportVars, parseVars>>

\* time.sleep returns, not before the time asked for has passed
RlWake(w) ==
    /\ rl_pc[w] = "sleeping"
    /\ now >= rl_wake[w]
    /\ rl_pc' = [rl_pc EXCEPT ![w] = "waking"]
    /\ UNCHANGED <<last_request_time, rate_limit_lock, now, rl_wake, rl_prev_grant,
                   rl_grants, clientVars, normVars, pageVars, reportVars, parseVars>>

\* self.last_request_time = time.time(), and the lock is released
RlGrant(w) ==
    /\ rl_pc[w] = "waking"
    /\ last_request_time' = now
    /\ rl_prev_grant' = last_request_time
    /\ rl_grants' = rl_grants + 1
    /\ rate_limit_lock' = 0
    /\ rl_pc' = [rl_pc EXCEPT ![w] = "idle"]
    /\ UNCHANGED <<now, rl_wake, clientVars, normVars, pageVars, reportVars, parseVars>>

Tick ==
    /\ now < MaxTime
    /\ now' = now + 1
    /\ UNCHANGED <<last_request_time, rate_limit_lock, rl_pc, rl_wake, rl_prev_grant,
                   rl_grants, clientVars, normVars, pageVars, reportVars, parseVars>>

NextRate ==
    \/ \E w \in RateWorkers : RlAcquire(w)
    \/ \E w \in RateWorkers : RlCheck(w)
    \/ \E w \in RateWorkers : RlWake(w)
    \/ \E w \in RateWorkers : RlGrant(w)
    \/ Tick

SpecRate == InitRate /\ [][NextRate]_vars

(***************************************************************************)
(* models.CustodyResult.status_summary and models.CustodyReport            *)
(***************************************************************************)

TextError == <<"E","R","R","O","R",":",SP>>

TextInCustody == <<"I","N",SP,"C","U","S","T","O","D","Y">>

TextBooked == <<SP,"-",SP,"B","o","o","k","e","d",":",SP>>

TextNotInCustody == <<"N","O","T",SP>> \o TextInCustody

\* a summary that tests in_custody before error_message
status_summary_custody_first(r) ==
    IF r.in_custody
    THEN IF Truthy(r.booking_date)
         THEN TextInCustody \o TextBooked \o r.booking_date
         ELSE TextInCustody
    ELSE IF Truthy(r.error_message)
         THEN TextError \o r.error_message
         ELSE TextNotInCustody

\* CustodyResult.status_summary
status_summary(r) ==
    IF Truthy(r.error_message)
    THEN TextError \o r.error_message
    ELSE IF r.in_custody
         THEN IF Truthy(r.booking_date)
              THEN TextInCustody \o TextBooked \o r.booking_date
              ELSE TextInCustody
         ELSE TextNotInCustody

\* sum(1 for r in ... if flag), over the flags of the list elements in order
RECURSIVE CountTrue(_)
CountTrue(flags) ==
    IF flags = <<>> THEN 0
    ELSE (IF Head(flags) THEN 1 ELSE 0) + CountTrue(Tail(flags))

\* CustodyReport.total_defendants
total_defendants(report) == Len(report.defendants_checked)

\* CustodyReport.in_custody_count
in_custody_count(report) ==
    LET rs == report.custody_results
    IN  CountTrue([i \in 1..Len(rs) |-> rs[i].in_custody])

\* a count that leaves the errored verdicts out
not_in_custody_count_without_errors(report) ==
    LET rs == report.custody_results
    IN  CountTrue([i \in 1..Len(rs) |-> ~rs[i].in_custody /\ ~Truthy(rs[i].error_message)])

\* CustodyReport.not_in_custody_count
not_in_custody_count(report) ==
    LET rs == report.custody_results
    IN  CountTrue([i \in 1..Len(rs) |-> ~rs[i].in_custody])

\* CustodyReport.error_count
error_count(report) ==
    LET rs == report.custody_results
    IN  CountTrue([i \in 1..Len(rs) |-> Truthy(rs[i].error_message)])

\* CustodyReport.get_in_custody_list
get_in_custody_list(report) ==
    LET keep(r) == r.in_custody IN SelectSeq(report.custody_results, keep)

CustodyReport(defendants_checked, custody_results) ==
    [defendants_checked |-> defendants_checked, custody_results |-> custody_results]

\* main: the report is built from the subjects and the verdicts, and its
\* properties are read
ReadReport(defendants_checked, custody_results) ==
    LET report == CustodyReport(defendants_checked, custody_results)
    IN  [total_defendants     |-> total_defendants(report),
         in_custody_count     |-> in_custody_count(report),
         not_in_custody_count |-> not_in_custody_count(report),
         error_count          |-> error_count(report),
         in_custody_list      |-> get_in_custody_list(report),
         status_summaries     |->
             [i \in 1..Len(custody_results) |-> status_summary(custody_results[i])]]

(***************************************************************************)
(* The endpoint                                                            *)
(***************************************************************************)

\* the booking cards of page p when the page holds data
PageCards(p) ==
    IF p > max_batches * batch_size THEN <<CardJoLee>>
    ELSE IF p = 1 THEN <<CardJohnQSmith>>
    ELSE IF p = 2 THEN <<CardNoHeader, CardJohnSmith>>
    ELSE IF p = 3 THEN <<CardOneToken>>
    ELSE <<CardJaneDoe>>

\* the response to the POST for page p: pages up to server.last_page hold
\* data, the fetches of the pages in server.fail raise or return status 500
ServerResponseOf(s, p) ==
    IF p \in s.fail
    THEN IF s.fail_kind = "exception"
         THEN Response(TRUE, 0, <<>>)
         ELSE Response(FALSE, 500, PageCards(p))
    ELSE IF p <= s.last_page
         THEN Response(FALSE, 200, PageCards(p))
         ELSE Response(FALSE, 200, <<>>)

ServerResponse(p) == ServerResponseOf(server, p)

Servers ==
    {Server(l, {}, "none") : l \in {0, 2, batch_size + 1, NumPages}}
    \cup {Server(2, {1}, "exception"), Server(2, {2}, "status"),
          Server(NumPages, 1..batch_size, "exception"),
          Server(NumPages, {1}, "status"), Server(4, {2}, "status")}

HandshakeError == <<"t","i","m","e","o","u","t">>

(***************************************************************************)
(* check_custody_for_all, check_custody, _ensure_session_initialized and   *)
(* _fetch_current_confinements, per caller thread.                         *)
(*                                                                         *)
(* check_custody reads its argument only where it builds the verdict (the  *)
(* log lines apart), so the model draws the defendant of a call in the     *)
(* step that builds the verdict; `calls` counts the calls made.            *)
(***************************************************************************)

Threads == DOMAIN pc

\* `if self._current_inmates is not None`
CacheHitNonEmpty == current_inmates # <<>> /\ current_inmates # <<EmptyDict>>

CacheHit == current_inmates # <<>>

\* the try/except of check_custody encloses the acquisition
AcquisitionUncaught == FALSE

AcquisitionCaught == TRUE

\* the pages of the batch that starts at page `start`
BatchPages(start) == start .. (start + batch_size - 1)

Running(t) == {p \in DOMAIN futures[t] : futures[t][p].st = "running"}

Queued(t) == {p \in DOMAIN futures[t] : futures[t][p].st = "queued"}

\* the stop test after a batch
AllEmptyStrict(empty) == empty > batch_size

AllEmpty(empty) == empty = batch_size

\* check_custody with the roster cached: _fetch_current_confinements returns
\* the cache and the lookup gives the verdict
CheckCustodyCached(t, d) ==
    /\ pc[t] = "idle"
    /\ calls[t] < input.max_calls
    /\ CacheHit
    /\ calls' = [calls EXCEPT ![t] = @ + 1]
    /\ defendants' = [defendants EXCEPT ![t] = Append(@, d)]
    /\ roster_returned' = [roster_returned EXCEPT ![t] = <<current_inmates[1]>>]
    /\ results' = [results EXCEPT ![t] = Append(@, LookupResult(d, current_inmates[1]))]
    /\ UNCHANGED <<pc, cacheVars, envVars, sentVars, acqVars, rateVars, normVars, pageVars, reportVars, parseVars>>

\* check_custody with the cache empty: on to _ensure_session_initialized
CheckCustodyStart(t) ==
    /\ pc[t] = "idle"
    /\ calls[t] < input.max_calls
    /\ ~CacheHit
    /\ calls' = [calls EXCEPT ![t] = @ + 1]
    /\ pc' = [pc EXCEPT ![t] = "ensure_session"]
    /\ UNCHANGED <<defendants, results, roster_returned, cacheVars, envVars, sentVars, acqVars,
                   rateVars, normVars, pageVars, reportVars, parseVars>>

\* the first statements of _fetch_current_confinements after the handshake
StartAcquisition(t) ==
    /\ inmates' = [inmates EXCEPT ![t] = EmptyDict]
    /\ batch_num' = [batch_num EXCEPT ![t] = 0]
    /\ current_batch_start' = [current_batch_start EXCEPT ![t] = 1]
    /\ pc' = [pc EXCEPT ![t] = "submit"]

\* _ensure_session_initialized: return if initialized, else send the GET
EnsureSession(t) ==
    /\ pc[t] = "ensure_session"
    /\ IF session_initialized
       THEN /\ StartAcquisition(t)
            /\ UNCHANGED handshake_requests
       ELSE /\ handshake_requests' = handshake_requests + 1
            /\ pc' = [pc EXCEPT ![t] = "handshake"]
            /\ UNCHANGED <<inmates, batch_num, current_batch_start>>
    /\ UNCHANGED <<calls, defendants, results, roster_returned, cacheVars, envVars, posted,
                   futures, empty_pages, pages_with_data, rateVars, normVars, pageVars, reportVars, parseVars>>

\* the GET answers: the session is initialized
HandshakeOk(t) ==
    /\ pc[t] = "handshake"
    /\ session_initialized' = TRUE
    /\ StartAcquisition(t)
    /\ UNCHANGED <<calls, defendants, results, roster_returned, current_inmates, envVars,
                   sentVars, futures, empty_pages, pages_with_data, rateVars, normVars,
                   pageVars, reportVars, parseVars>>

\* a call that answers a handshake that raises by trying the handshake again
HandshakeRetry(t, d) ==
    /\ pc[t] = "handshake"
    /\ pc' = [pc EXCEPT ![t] = "ensure_session"]
    /\ UNCHANGED <<calls, defendants, results, roster_returned, cacheVars, envVars, sentVars,
                   acqVars, rateVars, normVars, pageVars, reportVars, parseVars>>

\* a handshake that raises and leaves an empty roster in the cache
HandshakeFailCachesEmpty(t, d) ==
    /\ pc[t] = "handshake"
    /\ defendants' = [defendants EXCEPT ![t] = Append(@, d)]
    /\ results' = [results EXCEPT ![t] = Append(@, ErrorResult(d, HandshakeError))]
    /\ pc' = [pc EXCEPT ![t] = "idle"]
    /\ current_inmates' = <<EmptyDict>>
    /\ UNCHANGED <<calls, roster_returned, session_initialized, envVars, sentVars, acqVars,
                   rateVars, normVars, pageVars, reportVars, parseVars>>

\* the GET raises: _ensure_session_initialized re-raises, check_custody's
\* except branch returns the error verdict
HandshakeFail(t, d) ==
    /\ pc[t] = "handshake"
    /\ IF AcquisitionCaught
       THEN /\ defendants' = [defendants EXCEPT ![t] = Append(@, d)]
            /\ results' = [results EXCEPT ![t] = Append(@, ErrorResult(d, HandshakeError))]
            /\ pc' = [pc EXCEPT ![t] = "idle"]
       ELSE /\ pc' = [pc EXCEPT ![t] = "raised"]
            /\ UNCHANGED <<defendants, results>>
    /\ UNCHANGED <<calls, roster_returned, cacheVars, envVars, sentVars, acqVars,
                   rateVars, normVars, pageVars, reportVars, parseVars>>

\* executor.submit for every page of the batch
SubmitBatch(t) ==
    /\ pc[t] = "submit"
    /\ futures' = [futures EXCEPT ![t] =
                      [p \in BatchPages(current_batch_start[t]) |->
                          [st |-> "queued", exc |-> FALSE, value |-> EmptyDict]]]
    /\ empty_pages' = [empty_pages EXCEPT ![t] = 0]
    /\ pages_with_data' = [pages_with_data EXCEPT ![t] = 0]
    /\ pc' = [pc EXCEPT ![t] = "collect"]
    /\ UNCHANGED <<calls, defendants, results, roster_returned, cacheVars, envVars, sentVars,
                   inmates, batch_num, current_batch_start, rateVars, normVars, pageVars, reportVars, parseVars>>

\* a free worker of the pool takes the oldest queued task, passes the rate
\* limiter and sends the POST
StartFetch(t) ==
    /\ Queued(t) # {}
    /\ Cardinality(Running(t)) < max_workers
    /\ LET p == SetMin(Queued(t))
       IN  /\ futures' = [futures EXCEPT ![t][p].st = "running"]
           /\ posted' = [posted EXCEPT ![t][p] = @ + 1]
    /\ UNCHANGED <<callVars, cacheVars, envVars, handshake_requests, inmates, batch_num,
                   current_batch_start, empty_pages, pages_with_data, rateVars, normVars,
                   pageVars, reportVars, parseVars>>

\* the POST raises or answers; _fetch_single_page returns and the future is done
FinishFetch(t, p) ==
    /\ p \in Running(t)
    /\ LET resp == ServerResponse(p)
       IN  futures' = [futures EXCEPT ![t][p] =
                          IF resp.exc
                          THEN [st |-> "done", exc |-> TRUE, value |-> EmptyDict]
                          ELSE [st |-> "done", exc |-> FALSE,
                                value |-> fetch_single_page(resp)]]
    /\ UNCHANGED <<callVars, cacheVars, envVars, sentVars, inmates, batch_num,
                   current_batch_start, empty_pages, pages_with_data, rateVars, normVars,
                   pageVars, reportVars, parseVars>>

\* one iteration of `for future in as_completed(future_to_page)`
MergeResult(t, p) ==
    /\ pc[t] = "collect"
    /\ p \in DOMAIN futures[t]
    /\ futures[t][p].st = "done"
    /\ futures' = [futures EXCEPT ![t][p].st = "merged"]
    /\ IF ~futures[t][p].exc /\ futures[t][p].value # EmptyDict
       THEN /\ inmates' = [inmates EXCEPT ![t] = DictUpdate(@, futures[t][p].value)]
            /\ pages_with_data' = [pages_with_data EXCEPT ![t] = @ + 1]
            /\ UNCHANGED empty_pages
       ELSE /\ empty_pages' = [empty_pages EXCEPT ![t] = @ + 1]
            /\ UNCHANGED <<inmates, pages_with_data>>
    /\ UNCHANGED <<callVars, cacheVars, envVars, sentVars, batch_num, current_batch_start,
                   rateVars, normVars, pageVars, reportVars, parseVars>>

\* `for future in as_completed(future_to_page)` has passed every future of the batch
BatchCollectedEarly(t) == \A p \in DOMAIN futures[t] : futures[t][p].st # "queued"

BatchCollected(t) == \A p \in DOMAIN futures[t] : futures[t][p].st = "merged"

\* a loop that runs one batch more than range(max_batches)
MoreBatchesOneTooMany(n) == n + 1 < max_batches + 1

\* `for batch_num in range(max_batches)`: there is an iteration after iteration n
MoreBatches(n) == n + 1 < max_batches

\* after the last future of the batch: break, or the next batch, or the end of the loop
EndBatch(t) ==
    /\ pc[t] = "collect"
    /\ BatchCollected(t)
    /\ IF AllEmpty(empty_pages[t])
       THEN /\ pc' = [pc EXCEPT ![t] = "publish"]
            /\ UNCHANGED <<batch_num, current_batch_start>>
       ELSE /\ current_batch_start' = [current_batch_start EXCEPT ![t] = @ + batch_size]
            /\ IF MoreBatches(batch_num[t])
               THEN /\ batch_num' = [batch_num EXCEPT ![t] = @ + 1]
                    /\ pc' = [pc EXCEPT ![t] = "submit"]
               ELSE /\ pc' = [pc EXCEPT ![t] = "publish"]
                    /\ UNCHANGED batch_num
    /\ UNCHANGED <<calls, defendants, results, roster_returned, cacheVars, envVars, sentVars,
                   inmates, futures, empty_pages, pages_with_data, rateVars, normVars,
                   pageVars, reportVars, parseVars>>

\* an acquisition that refuses a roster whose last batch still held records:
\* nothing is cached and the call gets an error verdict
PublishCompleteOnly(t, d) ==
    /\ pc[t] = "publish"
    /\ IF AllEmpty(empty_pages[t])
       THEN /\ current_inmates' = <<inmates[t]>>
            /\ roster_returned' = [roster_returned EXCEPT ![t] = <<inmates[t]>>]
            /\ results' = [results EXCEPT ![t] = Append(@, LookupResult(d, inmates[t]))]
       ELSE /\ results' = [results EXCEPT ![t] = Append(@, ErrorResult(d, <<"t","r","u","n","c">>))]
            /\ UNCHANGED <<current_inmates, roster_returned>>
    /\ defendants' = [defendants EXCEPT ![t] = Append(@, d)]
    /\ pc' = [pc EXCEPT ![t] = "idle"]
    /\ UNCHANGED <<calls, session_initialized, envVars, sentVars, acqVars, rateVars,
                   normVars, pageVars, reportVars, parseVars>>

\* self._current_inmates = inmates; return inmates; then the lookup of check_custody
Publish(t, d) ==
    /\ pc[t] = "publish"
    /\ current_inmates' = <<inmates[t]>>
    /\ roster_returned' = [roster_returned EXCEPT ![t] = <<inmates[t]>>]
    /\ defendants' = [defendants EXCEPT ![t] = Append(@, d)]
    /\ results' = [results EXCEPT ![t] = Append(@, LookupResult(d, inmates[t]))]
    /\ pc' = [pc EXCEPT ![t] = "idle"]
    /\ UNCHANGED <<calls, session_initialized, envVars, sentVars, acqVars, rateVars,
                   normVars, pageVars, reportVars, parseVars>>

\* check_custody_for_all has passed every subject and returns `results`
ReturnResults(t) ==
    /\ pc[t] = "idle"
    /\ pc' = [pc EXCEPT ![t] = "returned"]
    /\ UNCHANGED <<calls, defendants, results, roster_returned, cacheVars, envVars, sentVars,
                   acqVars, rateVars, normVars, pageVars, reportVars, parseVars>>

\* main: the report of the batch run, built from the subjects and from the
\* verdicts check_custody_for_all returned
MainReport(t) ==
    /\ pc[t] = "returned"
    /\ rp_out = <<>>
    /\ rp_defendants_checked' = defendants[t]
    /\ rp_custody_results' = results[t]
    /\ rp_out' = <<ReadReport(defendants[t], results[t])>>
    /\ UNCHANGED <<clientVars, rateVars, normVars, pageVars, parseVars>>

Next ==
    \/ \E t \in Threads, d \in input.subjects : CheckCustodyCached(t, d)
    \/ \E t \in Threads : CheckCustodyStart(t)
    \/ \E t \in Threads : EnsureSession(t)
    \/ \E t \in Threads : HandshakeOk(t)
    \/ \E t \in Threads, d \in input.subjects : HandshakeFail(t, d)
    \/ \E t \in Threads : SubmitBatch(t)
    \/ \E t \in Threads : StartFetch(t)
    \/ \E t \in Threads, p \in 1..NumPages : FinishFetch(t, p)
    \/ \E t \in Threads, p \in 1..NumPages : MergeResult(t, p)
    \/ \E t \in Threads : EndBatch(t)
    \/ \E t \in Threads, d \in input.subjects : Publish(t, d)
    \/ \E t \in Threads : ReturnResults(t)
    \/ \E t \in Threads : MainReport(t)

\* one caller: the batch run of main.py
Init ==
    /\ ClientInit
    /\ server \in Servers
    /\ input = [subjects |-> Subjects, max_calls |-> MaxDefendants]
    /\ ThreadsInit({1})
    /\ RateIdle
    /\ NormIdle
    /\ PageIdle
    /\ ReportIdle
    /\ ParseIdle

Spec == Init /\ [][Next]_vars

\* two callers on one client, each checking one subject
InitConc ==
    /\ ClientInit
    /\ server = Server(0, {}, "none")
    /\ input = [subjects |-> {SubjJohnQSmith}, max_calls |-> 1]
    /\ ThreadsInit({1, 2})
    /\ RateIdle
    /\ NormIdle
    /\ PageIdle
    /\ ReportIdle
    /\ ParseIdle

SpecConc == InitConc /\ [][Next]_vars

(***************************************************************************)
(* A CustodyReport over arbitrary verdicts                                 *)
(***************************************************************************)

\* bound: verdicts and subjects in one report
MaxResults == 2

ErrorText == <<"E","r","r","o","r",":",SP>> \o HandshakeError

\* verdicts as callers of the model classes can build them
Verdicts ==
    { CustodyResult(SubjJoLee, ic, None, bd, None, None, None, None, em) :
        ic \in BOOLEAN, bd \in {None, <<>>, Date1}, em \in {None, <<>>, ErrorText} }

InitReport ==
    /\ rp_defendants_checked \in SeqsUpTo({SubjJoLee}, MaxResults)
    /\ rp_custody_results \in SeqsUpTo(Verdicts, MaxResults)
    /\ rp_out = <<>>
    /\ ParseIdle
    /\ NormIdle
    /\ PageIdle
    /\ RateIdle
    /\ ClientIdle

\* the report is built and its properties are read
RpRead ==
    /\ rp_out = <<>>
    /\ rp_out' = <<ReadReport(rp_defendants_checked, rp_custody_results)>>
    /\ UNCHANGED <<rp_defendants_checked, rp_custody_results, parseVars, normVars, pageVars,
                   rateVars, clientVars>>

NextReport == RpRead

SpecReport == InitReport /\ [][NextReport]_vars

(***************************************************************************)
(* parsers.parse_defendant_name                                            *)
(***************************************************************************)

Comma == ","

\* `',' in name_str`
HasComma(s) == \E i \in 1..Len(s) : s[i] = Comma

\* name_str.split(',', 1): the text before the first comma and the text after it
SplitAtFirstComma(s) ==
    LET k == SetMin({i \in 1..Len(s) : s[i] = Comma})
    IN  << SubSeq(s, 1, k - 1), SubSeq(s, k + 1, Len(s)) >>

\* the branch for "First Last" and "First Middle Last"; returns (first, middle, last)
parse_first_last(name_str) ==
    LET parts == Split(name_str)
    IN  IF Len(parts) >= 3
        THEN << parts[1], Join(<<SP>>, SubSeq(parts, 2, Len(parts) - 1)), parts[Len(parts)] >>
        ELSE IF Len(parts) = 2 THEN << parts[1], <<>>, parts[2] >>
        ELSE IF Len(parts) = 1 THEN << <<>>, <<>>, parts[1] >>
        ELSE << <<>>, <<>>, <<>> >>

\* the branch for "Last, First Middle"; returns (first, middle, last)
parse_last_comma_first(name_str) ==
    LET parts        == SplitAtFirstComma(name_str)
        last_name    == Strip(parts[1])
        first_middle == Strip(parts[2])
        name_parts   == Split(first_middle)
    IN  IF Len(name_parts) >= 2
        THEN << name_parts[1], Join(<<SP>>, Tail(name_parts)), last_name >>
        ELSE IF Len(name_parts) = 1 THEN << name_parts[1], <<>>, last_name >>
        ELSE << <<>>, <<>>, last_name >>

\* a parser that reads every string as "First Middle Last"
parse_defendant_name_no_comma(name_str) == parse_first_last(Strip(name_str))

\* parse_defendant_name; returns (first, middle, last)
parse_defendant_name(name_str) ==
    LET stripped == Strip(name_str)
    IN  IF HasComma(stripped)
        THEN parse_last_comma_first(stripped)
        ELSE parse_first_last(stripped)

\* bound: characters in a name string
MaxNameLen == 6

NameChars == {"a", "b", Comma, SP}

InitParse ==
    /\ ps_name_str \in SeqsUpTo(NameChars, MaxNameLen)
    /\ ps_out = <<>>
    /\ ReportIdle
    /\ NormIdle
    /\ PageIdle
    /\ RateIdle
    /\ ClientIdle

PsParse ==
    /\ ps_out = <<>>
    /\ ps_out' = <<parse_defendant_name(ps_name_str)>>
    /\ UNCHANGED <<ps_name_str, reportVars, normVars, pageVars, rateVars, clientVars>>

NextParse == PsParse

SpecParse == InitParse /\ [][NextParse]_vars

(***************************************************************************)
(* Properties                                                              *)
(***************************************************************************)

KeySmithJohn  == <<"s","m","i","t","h",SP,"j","o","h","n">>
KeySmithJohnQ == <<"s","m","i","t","h",SP,"j","o","h","n",SP,"q">>
KeySmithJon   == <<"s","m","i","t","h",SP,"j","o","n">>

NoBookingDetail(v) ==
    /\ v.booking_number = None
    /\ v.booking_date = None
    /\ v.custody_location = None
    /\ v.charges_at_booking = None
    /\ v.bond_amount = None
    /\ v.mugshot_url = None

\* the pairs of a server and a page whose fetch yields no record: the fetch
\* raises or returns an empty dictionary
NothingYielded ==
    { sp \in { <<s, p>> : s \in Servers, p \in 1..NumPages } :
        LET resp == ServerResponseOf(sp[1], sp[2])
        IN  resp.exc \/ fetch_single_page(resp) = EmptyDict }

PageYieldsNothing(p) == <<server, p>> \in NothingYielded

\* the records built from the cards of page p when its fetch succeeds
PageRecords(p) ==
    LET resp == ServerResponse(p)
    IN  IF resp.exc \/ resp.status # 200 THEN {}
        ELSE { InmateData(resp.cards[i], Strip(resp.cards[i].h5), Split(resp.cards[i].h5)) :
                 i \in {j \in 1..Len(resp.cards) :
                          /\ resp.cards[j].h5 # None
                          /\ Len(Split(resp.cards[j].h5)) >= 2
                          /\ ~resp.cards[j].raises} }

PostedPages(t) == {p \in 1..NumPages : posted[t][p] > 0}

\* C1: once an acquisition has returned a roster (an empty one included),
\* every later call on the client returns that same roster and no further
\* handshake or page-fetch request is sent.
C1_CachedRosterReused ==
    [][ current_inmates # <<>> =>
          /\ current_inmates' = current_inmates
          /\ handshake_requests' = handshake_requests
          /\ posted' = posted
          /\ \A t \in Threads :
                calls'[t] # calls[t] =>
                    /\ roster_returned'[t] = current_inmates
                    /\ pc'[t] = "idle"
                    /\ Len(results'[t]) = calls'[t] ]_vars

C1_Witness ==
    /\ calls[1] = 2
    /\ Len(results[1]) = 2
    /\ results[1][1].error_message = None
    /\ current_inmates = <<EmptyDict>>
    /\ roster_returned[1] = current_inmates
    /\ handshake_requests = 1
    /\ PostedPages(1) = 1..batch_size

\* C2: when two callers start roster acquisition while the cache is empty, at
\* most one of them fetches pages, and once the cache is written no caller is
\* still on its way to write it again.
C2_SingleAcquisition ==
    /\ Cardinality({t \in Threads : PostedPages(t) # {}}) <= 1
    /\ current_inmates # <<>> =>
          \A t \in Threads : pc[t] \notin {"submit", "collect", "publish"}

\* C3: any two consecutive grants of the rate limiter (updates of
\* last_request_time) are at least delay_seconds apart, whatever the
\* interleaving of the workers.
C3_GrantsSpaced ==
    rl_grants >= 2 => last_request_time - rl_prev_grant >= delay_seconds

C3_Witness ==
    /\ rl_grants >= 3
    /\ last_request_time - rl_prev_grant = delay_seconds
    /\ \E w \in RateWorkers : rl_pc[w] = "sleeping"

\* C4: check_custody_for_all returns one verdict per subject, the i-th for
\* the i-th subject, and no exception leaves check_custody, whatever the
\* handshake and the page fetches do.
C4_OneVerdictPerSubject ==
    \A t \in Threads :
        /\ pc[t] # "raised"
        /\ pc[t] = "returned" =>
              /\ Len(results[t]) = calls[t]
              /\ Len(defendants[t]) = calls[t]
              /\ \A i \in 1..Len(results[t]) :
                    /\ results[t][i].defendant_name = full_name(defendants[t][i])
                    /\ results[t][i].matter_number = defendants[t][i].matter_number
                    /\ results[t][i].case_number = defendants[t][i].case_number

C4_Witness ==
    /\ pc[1] = "returned"
    /\ calls[1] = 2
    /\ Len(results[1]) = 2
    /\ results[1][1].error_message # None
    /\ results[1][2].in_custody
    /\ server.fail # {}

\* C5: when the acquisition raises (the handshake fails), the call returns a
\* verdict with in_custody false, a non-empty error message and no booking
\* detail.
C5_ErrorVerdict ==
    [][ \A t \in Threads :
          (pc[t] = "handshake" /\ pc'[t] # "handshake" /\ ~session_initialized') =>
              /\ Len(results'[t]) = Len(results[t]) + 1
              /\ LET v == results'[t][Len(results'[t])]
                 IN  /\ v.in_custody = FALSE
                     /\ v.error_message # None
                     /\ v.error_message # <<>>
                     /\ NoBookingDetail(v) ]_vars

C5_Witness ==
    /\ Len(results[1]) >= 1
    /\ results[1][1].error_message # None
    /\ ~results[1][1].in_custody
    /\ ~session_initialized

\* C6: with an acquired roster, the verdict is Matched exactly when the
\* subject's full key or its key without the middle name is a key of the
\* roster, and an Unmatched verdict has no booking detail; John Smith matches
\* the key "smith john", Jon Smith does not.
C6_MatchedIffKeyPresent ==
    \A t \in Threads : \A i \in 1..Len(results[t]) :
        LET v == results[t][i]
            d == defendants[t][i]
            n == search_name(d)
        IN  v.error_message = None =>
              /\ current_inmates # <<>>
              /\ v.in_custody <=>
                    \/ normalize_name(n[3], n[1], n[2]) \in DOMAIN current_inmates[1]
                    \/ normalize_name(n[3], n[1], <<>>) \in DOMAIN current_inmates[1]
              /\ ~v.in_custody => NoBookingDetail(v)
              /\ d = SubjJohnSmith => (v.in_custody <=> KeySmithJohn \in DOMAIN current_inmates[1])
              /\ d = SubjJonSmith => (v.in_custody <=> KeySmithJon \in DOMAIN current_inmates[1])

C6_Witness ==
    /\ Len(results[1]) = 2
    /\ defendants[1] = <<SubjJohnSmith, SubjJonSmith>>
    /\ results[1][1].in_custody
    /\ ~results[1][2].in_custody
    /\ results[1][2].error_message = None
    /\ KeySmithJohn \in DOMAIN current_inmates[1]

\* C7: for non-empty last and first and any middle (empty and whitespace-only
\* included), two inputs that differ only in letter case or in whitespace
\* around a component normalize to the same key.
C7_CaseAndPaddingInsensitive ==
    nm_out # <<>> => nm_out[1] = nm_out[2]

\* the cards of the fetched page whose display name has exactly three tokens
ThreeTokenCards ==
    {i \in 1..Len(pg_resp.cards) :
        /\ pg_resp.cards[i].h5 # None
        /\ ~pg_resp.cards[i].raises
        /\ Len(Split(pg_resp.cards[i].h5)) = 3}

\* C8 (as stated): a record built from a block whose display name is the
\* tokens t1 t2 t3 is indexed under the lowercased keys "t1 t2 t3" and "t1 t2".
C8_KeysInDisplayOrder ==
    (pg_out # <<>> /\ pg_resp.status = 200) =>
        \A i \in ThreeTokenCards :
            LET t == Split(pg_resp.cards[i].h5)
            IN  /\ Lower(Join(<<SP>>, <<t[1], t[2], t[3]>>)) \in DOMAIN pg_out[1]
                /\ Lower(Join(<<SP>>, <<t[1], t[2]>>)) \in DOMAIN pg_out[1]

\* C8 (amended): the record is indexed under the lowercased keys "t3 t1 t2"
\* and "t3 t1": the last token is the last name and leads the key; on a page
\* holding that one card both keys give the card's record.
C8_KeysLastNameFirst ==
    (pg_out # <<>> /\ pg_resp.status = 200) =>
        \A i \in ThreeTokenCards :
            LET t    == Split(pg_resp.cards[i].h5)
                full == Lower(Join(<<SP>>, <<t[3], t[1], t[2]>>))
                noMiddle == Lower(Join(<<SP>>, <<t[3], t[1]>>))
            IN  /\ full \in DOMAIN pg_out[1]
                /\ noMiddle \in DOMAIN pg_out[1]
                /\ Len(pg_resp.cards) = 1 =>
                     /\ pg_out[1][full].full_name = Strip(pg_resp.cards[i].h5)
                     /\ pg_out[1][noMiddle] = pg_out[1][full]

C8_Witness ==
    /\ pg_out # <<>>
    /\ pg_resp.status = 200
    /\ pg_resp.cards = <<CardJohnQSmith>>
    /\ DOMAIN pg_out[1] = {KeySmithJohnQ, KeySmithJohn}

\* every page of the batch numbered k (from 0) yields no record
BatchYieldsNothing(k) ==
    \A q \in BatchPages(k * batch_size + 1) : PageYieldsNothing(q)

\* C9: after the first batch all of whose pages give zero records no page of
\* a later batch is requested; when that batch is the first one, exactly the
\* pages of one batch are fetched and the roster returned is empty.
C9_StopAfterEmptyBatch ==
    \A t \in Threads :
        /\ \A p \in PostedPages(t) :
              \A k \in 0..(max_batches - 1) :
                  p > (k + 1) * batch_size => ~BatchYieldsNothing(k)
        /\ (roster_returned[t] # <<>> /\ PostedPages(t) # {} /\ BatchYieldsNothing(0)) =>
              /\ roster_returned[t] = <<EmptyDict>>
              /\ \A p \in 1..NumPages :
                    posted[t][p] = IF p <= batch_size THEN 1 ELSE 0

C9_Witness ==
    /\ server.fail = 1..batch_size
    /\ server.last_page = NumPages
    /\ pc[1] = "idle"
    /\ roster_returned[1] = <<EmptyDict>>
    /\ PostedPages(1) = 1..batch_size

\* C10: in a published roster every record extracted from a successful page
\* is the value of at least one key, and a record that is the value of its
\* full key is also the value of its key without the middle name.
C10_RecordsReachable ==
    \A t \in Threads :
        (roster_returned[t] # <<>> /\ pc[t] = "idle") =>
            LET r == roster_returned[t][1]
            IN  /\ \A rec \in UNION {PageRecords(p) : p \in PostedPages(t)} :
                      \E k \in DOMAIN r : r[k] = rec
                /\ \A k \in DOMAIN r :
                      LET rec == r[k]
                          noMiddle == normalize_name(rec.last_name, rec.first_name, <<>>)
                      IN  k = normalize_name(rec.last_name, rec.first_name, rec.middle_name) =>
                              /\ noMiddle \in DOMAIN r
                              /\ r[noMiddle] = rec

(***************************************************************************)
(* The published roster                                                    *)
(***************************************************************************)

\* the callers that are not inside an acquisition
AtRest(t) == pc[t] \in {"idle", "returned"}

\* no page fetch of the caller's last batch is still to be merged
NothingOutstanding(t) == \A p \in DOMAIN futures[t] : futures[t][p].st = "merged"

\* C11: once a roster is assigned to the cache the cache keeps a roster, the
\* dictionary that was assigned is never changed again by its builder, and
\* the cache only ever changes by the assignment of the whole dictionary of a
\* caller that has collected every batch; the roster in the cache is always
\* one whose builder has finished building it.
C11_PublishedRosterFrozen ==
    /\ [](current_inmates # <<>> =>
            \E t \in Threads :
                /\ AtRest(t)
                /\ NothingOutstanding(t)
                /\ inmates[t] = current_inmates[1])
    /\ [][current_inmates # <<>> =>
            /\ current_inmates' # <<>>
            /\ \A t \in Threads : AtRest(t) => inmates'[t] = inmates[t]
            /\ \/ current_inmates' = current_inmates
               \/ \E t \in Threads :
                     /\ pc[t] = "publish"
                     /\ NothingOutstanding(t)
                     /\ current_inmates' = <<inmates[t]>>]_vars

\* a roster with records is cached and a later check_custody call has read it
C11_Witness ==
    /\ current_inmates # <<>>
    /\ current_inmates[1] # EmptyDict
    /\ \E t \in Threads : Len(results[t]) >= 2

(***************************************************************************)
(* The subject's identity and case metadata in the verdict                 *)
(***************************************************************************)

\* C12: every verdict check_custody has returned, whether matched, unmatched
\* or errored, carries the full_name, matter_number and case_number of the
\* subject of that call.
C12_SubjectPassedThrough ==
    \A t \in Threads :
        /\ Len(results[t]) = Len(defendants[t])
        /\ \A i \in 1..Len(results[t]) :
              /\ results[t][i].defendant_name = full_name(defendants[t][i])
              /\ results[t][i].matter_number = defendants[t][i].matter_number
              /\ results[t][i].case_number = defendants[t][i].case_number

\* an errored verdict and a matched verdict of a subject with a matter number
C12_Witness ==
    \E t \in Threads : \E i, j \in 1..Len(results[t]) :
        /\ results[t][i].error_message # None
        /\ results[t][i].case_number # None
        /\ results[t][j].in_custody
        /\ results[t][j].matter_number # None

(***************************************************************************)
(* CustodyReport and CustodyResult.status_summary                          *)
(***************************************************************************)

\* the positions of the in-custody verdicts of the report
InCustodyPositions == {i \in 1..Len(rp_custody_results) : rp_custody_results[i].in_custody}

\* C13: in_custody_count is the number of verdicts with in_custody true,
\* not_in_custody_count the number with in_custody false, the two add up to
\* the number of verdicts, get_in_custody_list is the in-custody verdicts in
\* their original order, and total_defendants is the length of
\* defendants_checked whatever the number of verdicts.
C13_ReportCounts ==
    rp_out # <<>> =>
        LET o == rp_out[1]
            n == Len(rp_custody_results)
        IN  /\ o.in_custody_count = Cardinality(InCustodyPositions)
            /\ o.not_in_custody_count = Cardinality((1..n) \ InCustodyPositions)
            /\ o.in_custody_count + o.not_in_custody_count = n
            /\ o.total_defendants = Len(rp_defendants_checked)
            /\ Len(o.in_custody_list) = Cardinality(InCustodyPositions)
            /\ \A k \in 1..Len(o.in_custody_list) :
                  \E i \in InCustodyPositions :
                      /\ Cardinality({j \in InCustodyPositions : j <= i}) = k
                      /\ o.in_custody_list[k] = rp_custody_results[i]

\* a report read with two different in-custody verdicts and a number of
\* subjects that differs from the number of verdicts
C13_Witness ==
    /\ rp_out # <<>>
    /\ Len(rp_custody_results) = 2
    /\ rp_custody_results[1].in_custody
    /\ rp_custody_results[2].in_custody
    /\ rp_custody_results[1] # rp_custody_results[2]
    /\ Len(rp_defendants_checked) # Len(rp_custody_results)

\* C14: status_summary is "ERROR: <message>" when the verdict has a non-empty
\* error_message, whatever in_custody is; else "IN CUSTODY - Booked: <date>"
\* when in custody with a non-empty booking date, "IN CUSTODY" when in
\* custody without one, and "NOT IN CUSTODY" otherwise.
C14_StatusSummary ==
    rp_out # <<>> =>
        \A i \in 1..Len(rp_custody_results) :
            LET r == rp_custody_results[i]
                s == rp_out[1].status_summaries[i]
                hasError == r.error_message # None /\ Len(r.error_message) > 0
                hasDate == r.booking_date # None /\ Len(r.booking_date) > 0
            IN  /\ hasError => s = TextError \o r.error_message
                /\ (~hasError /\ r.in_custody /\ hasDate) =>
                       s = TextInCustody \o TextBooked \o r.booking_date
                /\ (~hasError /\ r.in_custody /\ ~hasDate) => s = TextInCustody
                /\ (~hasError /\ ~r.in_custody) => s = TextNotInCustody

\* the summary of an in-custody verdict that carries an error message was read
C14_Witness ==
    /\ rp_out # <<>>
    /\ \E i \in 1..Len(rp_custody_results) :
          /\ rp_custody_results[i].in_custody
          /\ rp_custody_results[i].booking_date = Date1
          /\ rp_custody_results[i].error_message = ErrorText
          /\ rp_out[1].status_summaries[i] = TextError \o ErrorText

(***************************************************************************)
(* parse_defendant_name                                                    *)
(***************************************************************************)

\* the position of the first comma of the string that was parsed
FirstComma == SetMin({i \in 1..Len(ps_name_str) : ps_name_str[i] = Comma})

\* the whitespace-separated tokens after the first comma
TokensAfterComma == Split(SubSeq(ps_name_str, FirstComma + 1, Len(ps_name_str)))

\* the rule for strings without a comma that have two or more tokens
CommaFreeRule ==
    LET out  == ps_out[1]
        toks == Split(ps_name_str)
    IN  (~HasComma(ps_name_str) /\ Len(toks) >= 2) =>
            /\ out[1] = toks[1]
            /\ out[3] = toks[Len(toks)]
            /\ out[2] = Join(<<SP>>, SubSeq(toks, 2, Len(toks) - 1))

\* the rule for first and middle name of strings with a comma
AfterCommaRule ==
    LET out == ps_out[1]
    IN  HasComma(ps_name_str) =>
            /\ out[1] = (IF TokensAfterComma = <<>> THEN <<>> ELSE TokensAfterComma[1])
            /\ out[2] = (IF TokensAfterComma = <<>> THEN <<>>
                         ELSE Join(<<SP>>, Tail(TokensAfterComma)))

\* C15 as stated: for a string with a comma last is the text before the
\* first comma, first the first token after it and middle the remaining
\* tokens joined by single spaces; for a comma-free string of two or more
\* tokens first and last are the first and last token and middle the tokens
\* in between.
C15_LastIsTextBeforeComma ==
    ps_out # <<>> =>
        /\ HasComma(ps_name_str) => ps_out[1][3] = SubSeq(ps_name_str, 1, FirstComma - 1)
        /\ AfterCommaRule
        /\ CommaFreeRule

\* C15, amended: as above, but last is the text before the first comma with
\* the whitespace around it removed, and first and middle are empty when no
\* token follows the comma.
C15_LastIsStrippedTextBeforeComma ==
    ps_out # <<>> =>
        /\ HasComma(ps_name_str) =>
               ps_out[1][3] = Strip(SubSeq(ps_name_str, 1, FirstComma - 1))
        /\ AfterCommaRule
        /\ CommaFreeRule

\* "a ,b a" was parsed: whitespace before the comma, two tokens after it
C15_Witness ==
    /\ ps_name_str = <<"a", SP, Comma, "b", SP, "a">>
    /\ ps_out = << << <<"b">>, <<"a">>, <<"a">> >> >>

(***************************************************************************)
(* The batches of one acquisition                                          *)
(***************************************************************************)

\* the first page of the batch that holds page p
BatchStartOf(p) == ((p - 1) \div batch_size) * batch_size + 1

\* C16: an acquisition requests only the pages 1..max_batches*batch_size,
\* each at most once, and in contiguous batches of batch_size pages: the
\* pages submitted together are one of the max_batches ranges, and a page is
\* requested only after every page of the batches before it was requested.
C16_BoundedBatches ==
    \A t \in Threads :
        /\ batch_num[t] \in 0..(max_batches - 1)
        /\ \A p \in 1..NumPages :
              /\ posted[t][p] <= 1
              /\ posted[t][p] = 1 =>
                    /\ p <= max_batches * batch_size
                    /\ \A q \in 1..(BatchStartOf(p) - 1) : posted[t][q] = 1
        /\ futures[t] # <<>> =>
              \E k \in 0..(max_batches - 1) :
                  DOMAIN futures[t] = (k * batch_size + 1)..((k + 1) * batch_size)

\* an acquisition has run all max_batches batches and published its roster
C16_Witness ==
    \E t \in Threads :
        /\ pc[t] = "idle"
        /\ roster_returned[t] # <<>>
        /\ \A p \in 1..(max_batches * batch_size) : posted[t][p] = 1
        /\ posted[t][NumPages] = 0

(***************************************************************************)
(* Page fetches that fail                                                  *)
(***************************************************************************)

\* the fetch of page p raises or is answered with a status other than 200
PageFails(p) == ServerResponse(p).exc \/ ServerResponse(p).status # 200

\* for every server and page whose fetch succeeds, the records of the cards
\* that have a name of two tokens or more, each with its two keys
SucceededRecords ==
    UNION { LET resp == ServerResponseOf(sp[1], sp[2])
            IN  IF resp.exc \/ resp.status # 200 THEN {}
                ELSE { LET rec == InmateData(resp.cards[i], Strip(resp.cards[i].h5),
                                             Split(resp.cards[i].h5))
                       IN  [s |-> sp[1], p |-> sp[2], rec |-> rec,
                            keys |-> { normalize_name(rec.last_name, rec.first_name,
                                                      rec.middle_name),
                                       normalize_name(rec.last_name, rec.first_name, <<>>) }] :
                       i \in {j \in 1..Len(resp.cards) :
                                /\ resp.cards[j].h5 # None
                                /\ Len(Split(resp.cards[j].h5)) >= 2
                                /\ ~resp.cards[j].raises} } :
            sp \in { <<s, p>> : s \in Servers, p \in 1..NumPages } }

\* the records, with their keys, that the pages in P give on the current server
RecordsOfPages(P) == {e \in SucceededRecords : e.s = server /\ e.p \in P}

\* the pages of the caller's current batch whose results were merged
MergedPages(t) == {p \in DOMAIN futures[t] : futures[t][p].st = "merged"}

Progress(st) ==
    CASE st = "queued" -> 0 [] st = "running" -> 1 [] st = "done" -> 2 [] st = "merged" -> 3

\* C18: the fetches submitted for a batch are never withdrawn, whatever the
\* other fetches of the batch do: each only moves forward until its result
\* has been collected; the caller leaves the collection loop, to stop or to
\* go on, only when every page of the batch was requested and its result
\* collected; and the pages of the next batch are submitted only then.
C18_BatchRunsToCompletion ==
    [][\A t \in Threads :
          /\ (DOMAIN futures'[t] = DOMAIN futures[t]) =>
                \A p \in DOMAIN futures[t] :
                    \/ Progress(futures'[t][p].st) >= Progress(futures[t][p].st)
                    \/ /\ NothingOutstanding(t)
                       /\ pc[t] = "submit"
          /\ (DOMAIN futures'[t] # DOMAIN futures[t]) =>
                /\ NothingOutstanding(t)
                /\ pc[t] = "submit"
          /\ (pc[t] = "collect" /\ pc'[t] # "collect") =>
                /\ NothingOutstanding(t)
                /\ DOMAIN futures[t] = BatchPages(current_batch_start[t])
                /\ \A p \in DOMAIN futures[t] : posted[t][p] = 1]_vars

\* the first batch had a failing page, every page of it was requested and
\* the second batch is under way
C18_Witness ==
    \E t \in Threads :
        /\ batch_num[t] >= 1
        /\ \E p \in 1..batch_size : PageFails(p)
        /\ \A p \in 1..batch_size : posted[t][p] = 1
        /\ posted[t][batch_size + 1] = 1

(***************************************************************************)
(* The session handshake                                                   *)
(***************************************************************************)

\* C19: the handshake request is sent at most once in the lifetime of the
\* client, and whenever a page-fetch request has been issued the handshake
\* has completed.
C19_HandshakeOnce ==
    /\ handshake_requests <= 1
    /\ (\E t \in Threads : PostedPages(t) # {}) => session_initialized

(***************************************************************************)
(* The order of the lookup keys                                            *)
(***************************************************************************)

\* the subject's key with the middle name and the key without it
FullKey(d) ==
    normalize_name(d.last_name, d.first_name,
                   IF d.middle_name = None THEN <<>> ELSE d.middle_name)

KeyWithoutMiddle(d) == normalize_name(d.last_name, d.first_name, <<>>)

\* the verdict v carries the booking details of the roster record rec
DetailsOf(v, rec) ==
    /\ v.in_custody
    /\ v.booking_number = rec.booking_number
    /\ v.booking_date = rec.booking_date
    /\ v.charges_at_booking = rec.charges
    /\ v.bond_amount = rec.bond_amount
    /\ v.mugshot_url = rec.mugshot_url

\* the roster holds both keys of the subject and they give different records
BothKeysDiffer(d, r) ==
    /\ FullKey(d) \in DOMAIN r
    /\ KeyWithoutMiddle(d) \in DOMAIN r
    /\ r[FullKey(d)] # r[KeyWithoutMiddle(d)]

\* C20: when the roster holds the subject's full key and its key without the
\* middle name and the two give different records, the verdict carries the
\* booking details of the record under the full key.
C20_FullKeyFirst ==
    \A t \in Threads :
        roster_returned[t] # <<>> =>
            \A i \in 1..Len(results[t]) :
                (results[t][i].error_message = None
                 /\ BothKeysDiffer(defendants[t][i], roster_returned[t][1])) =>
                    DetailsOf(results[t][i],
                              roster_returned[t][1][FullKey(defendants[t][i])])

\* a verdict for John Q Smith from a roster in which "smith john q" and
\* "smith john" give different records with different booking numbers
C20_Witness ==
    \E t \in Threads :
        /\ roster_returned[t] # <<>>
        /\ \E i \in 1..Len(results[t]) :
              /\ defendants[t][i] = SubjJohnQSmith
              /\ BothKeysDiffer(SubjJohnQSmith, roster_returned[t][1])
              /\ roster_returned[t][1][KeySmithJohnQ].booking_number
                     # roster_returned[t][1][KeySmithJohn].booking_number
              /\ results[t][i].booking_number = Bid1


(***************************************************************************)
(* Overwritten roster keys                                                 *)
(***************************************************************************)

\* the normalized full name of a roster record
RecordFullName(rec) == normalize_name(rec.last_name, rec.first_name, rec.middle_name)

\* C21: whenever merging a page's records into the roster replaces the
\* record under an existing key, the replaced and the replacing record have
\* the same normalized full name.
C21_OverwriteSameIndividual ==
    [][\A t \in Threads :
          \A k \in DOMAIN inmates[t] \cap DOMAIN inmates'[t] :
              inmates'[t][k] # inmates[t][k] =>
                  RecordFullName(inmates'[t][k]) = RecordFullName(inmates[t][k])]_vars

(***************************************************************************)
(* The order in which page results are merged                              *)
(***************************************************************************)

\* for every server and page, the dictionary the fetch of the page gives
\* (empty when the fetch raises)
PageValues ==
    [sp \in { <<s, p>> : s \in Servers, p \in 1..NumPages } |->
        LET resp == ServerResponseOf(sp[1], sp[2])
        IN  IF resp.exc THEN EmptyDict ELSE fetch_single_page(resp)]

PageValue(p) == PageValues[<<server, p>>]

\* no key is given by two of the pages in P
KeysDisjoint(P) ==
    \A p, q \in P : p # q => DOMAIN PageValue(p) \cap DOMAIN PageValue(q) = {}

\* the caller's collection loop has just taken the result of page p
JustMerged(t, p) ==
    /\ p \in DOMAIN futures[t]
    /\ DOMAIN futures'[t] = DOMAIN futures[t]
    /\ futures[t][p].st = "done"
    /\ futures'[t][p].st = "merged"

\* C22: when no key is given by two of the requested pages, the roster
\* returned is the union of the page dictionaries, whatever the order in
\* which the fetches completed; and the roster under construction changes
\* only by starting empty or by taking the result of one page, whose entries
\* replace the entries already held under the same keys while all other
\* entries stay, so that on a collision the page merged last is kept.
C22_MergeOrder ==
    /\ [](\A t \in Threads :
            (roster_returned[t] # <<>> /\ PostedPages(t) # {}
             /\ KeysDisjoint(PostedPages(t))) =>
                LET r == roster_returned[t][1]
                IN  /\ DOMAIN r = UNION {DOMAIN PageValue(p) : p \in PostedPages(t)}
                    /\ \A p \in PostedPages(t) :
                          \A k \in DOMAIN PageValue(p) : r[k] = PageValue(p)[k])
    /\ [][\A t \in Threads :
            /\ inmates'[t] # inmates[t] =>
                  \/ inmates'[t] = EmptyDict
                  \/ \E p \in DOMAIN futures[t] :
                        /\ JustMerged(t, p)
                        /\ ~futures[t][p].exc
                        /\ DOMAIN inmates'[t] = DOMAIN inmates[t] \cup DOMAIN futures[t][p].value
                        /\ \A k \in DOMAIN futures[t][p].value :
                              inmates'[t][k] = futures[t][p].value[k]
                        /\ \A k \in DOMAIN inmates[t] \ DOMAIN futures[t][p].value :
                              inmates'[t][k] = inmates[t][k]
            /\ \A p \in DOMAIN futures[t] :
                  (JustMerged(t, p) /\ ~futures[t][p].exc) =>
                      \A k \in DOMAIN futures[t][p].value :
                          inmates'[t][k] = futures[t][p].value[k]
            /\ (pc[t] = "publish" /\ pc'[t] # "publish") =>
                  roster_returned'[t] = <<inmates[t]>>]_vars

\* a roster returned by an acquisition in which two requested pages gave
\* records and no key was given by two pages
C22_Witness ==
    \E t \in Threads :
        /\ roster_returned[t] # <<>>
        /\ KeysDisjoint(PostedPages(t))
        /\ \E p, q \in PostedPages(t) :
              /\ p < q
              /\ PageValue(p) # EmptyDict
              /\ PageValue(q) # EmptyDict
              /\ \A k \in DOMAIN PageValue(p) \cup DOMAIN PageValue(q) :
                    k \in DOMAIN roster_returned[t][1]

(***************************************************************************)
(* The worker pool                                                         *)
(***************************************************************************)

\* C23: at every moment of an acquisition at most 3 page fetches are being
\* run by a worker, although every batch submits batch_size pages at once
\* (20 in the source), more than the pool has workers.
C23_AtMostThreeInFlight ==
    \A t \in Threads :
        /\ Cardinality({p \in DOMAIN futures[t] : futures[t][p].st = "running"}) <= 3
        /\ futures[t] # <<>> =>
              /\ Cardinality(DOMAIN futures[t]) = batch_size
              /\ batch_size > 3

\* three fetches of a batch are running while a fourth page of the batch
\* waits for a worker
C23_Witness ==
    \E t \in Threads :
        /\ Cardinality({p \in DOMAIN futures[t] : futures[t][p].st = "running"}) = 3
        /\ \E p \in DOMAIN futures[t] : futures[t][p].st = "queued"

(***************************************************************************)
(* Blocks that are dropped in page extraction                              *)
(***************************************************************************)

\* the tokens of the name header of a block
HeaderTokens(card) == Split(Strip(card.h5))

\* a block with a name header of two tokens or more whose extraction does
\* not raise
WellFormed(card) ==
    /\ card.h5 # None
    /\ Len(HeaderTokens(card)) >= 2
    /\ ~card.raises

\* the record of a well-formed block and its two keys
RecordOf(card) == InmateData(card, Strip(card.h5), HeaderTokens(card))

RecordKeys(rec) ==
    {RecordFullName(rec), normalize_name(rec.last_name, rec.first_name, <<>>)}

\* the positions of the well-formed blocks of a page
WellFormedBlocks(cards) == {i \in 1..Len(cards) : WellFormed(cards[i])}

\* C24: in page extraction a block with no name header, with a name of one
\* token, or whose extraction raises is dropped and the other blocks of the
\* page are extracted as if it were not there: the page gives exactly the
\* keys of its well-formed blocks, each key with the record of the last
\* well-formed block that has it, so a well-formed block whose keys no later
\* block has gives its record; a page of one well-formed block and one block
\* without a name gives exactly one record; and a name of two tokens gives
\* an empty middle name.
C24_MalformedBlockDropped ==
    (pg_out # <<>> /\ pg_resp.status = 200) =>
        LET cards == pg_resp.cards
            out   == pg_out[1]
            good  == WellFormedBlocks(cards)
            having(k) == {i \in good : k \in RecordKeys(RecordOf(cards[i]))}
        IN  /\ DOMAIN out = UNION {RecordKeys(RecordOf(cards[i])) : i \in good}
            /\ \A k \in DOMAIN out : out[k] = RecordOf(cards[SetMax(having(k))])
            /\ \A i \in good :
                  (\A j \in good : j > i =>
                      RecordKeys(RecordOf(cards[j])) \cap RecordKeys(RecordOf(cards[i])) = {}) =>
                      \A k \in RecordKeys(RecordOf(cards[i])) : out[k] = RecordOf(cards[i])
            /\ (Len(cards) = 2 /\ Cardinality(good) = 1
                /\ \E i \in 1..2 : cards[i].h5 = None) =>
                  Cardinality({out[k] : k \in DOMAIN out}) = 1
            /\ \A i \in good :
                  Len(HeaderTokens(cards[i])) = 2 => RecordOf(cards[i]).middle_name = <<>>
            /\ \A k \in DOMAIN out :
                  Len(Split(out[k].full_name)) = 2 => out[k].middle_name = <<>>

\* a page of a block without a name header followed by the well-formed block
\* of a two-token name has given that block's record
C24_Witness ==
    /\ pg_out # <<>>
    /\ pg_resp.status = 200
    /\ pg_resp.cards = <<CardNoHeader, CardJohnSmith>>
    /\ DOMAIN pg_out[1] = {KeySmithJohn}
    /\ pg_out[1][KeySmithJohn].booking_number = Bid2
    /\ pg_out[1][KeySmithJohn].middle_name = <<>>

(***************************************************************************)
(* The course of one check_custody call                                    *)
(***************************************************************************)

\* the three outcomes of a call
Matched(v) == v.in_custody /\ v.error_message = None

Unmatched(v) == ~v.in_custody /\ v.error_message = None

AcquisitionFailed(v) == ~v.in_custody /\ v.error_message # None

\* the caller is inside a check_custody call
InCall(t) == pc[t] \in {"ensure_session", "handshake", "submit", "collect", "publish"}

\* a call under way has a step to take
CallCanStep(t) ==
    \/ pc[t] \in {"ensure_session", "handshake", "submit", "publish"}
    \/ /\ pc[t] = "collect"
       /\ \/ \E p \in DOMAIN futures[t] : futures[t][p].st \in {"running", "done"}
          \/ \E p \in DOMAIN futures[t] : futures[t][p].st = "queued"
          \/ \A p \in DOMAIN futures[t] : futures[t][p].st = "merged"

\* C25: every check_custody call ends with exactly one verdict, which is
\* Matched, Unmatched or AcquisitionFailed, and a call under way is never
\* stuck; the call enters the acquisition at most once: the handshake is
\* only sent by a call that has just started, and a handshake that raises
\* ends the call with the AcquisitionFailed verdict instead of a new attempt.
C25_OneOutcomePerCall ==
    /\ [](\A t \in Threads :
            /\ Len(results[t]) = (IF InCall(t) THEN calls[t] - 1 ELSE calls[t])
            /\ InCall(t) => CallCanStep(t)
            /\ \A i \in 1..Len(results[t]) :
                  LET v == results[t][i]
                  IN  /\ Matched(v) \/ Unmatched(v) \/ AcquisitionFailed(v)
                      /\ ~(Matched(v) /\ Unmatched(v))
                      /\ ~(Matched(v) /\ AcquisitionFailed(v))
                      /\ ~(Unmatched(v) /\ AcquisitionFailed(v)))
    /\ [][\A t \in Threads :
            /\ (pc'[t] = "ensure_session" /\ pc[t] # "ensure_session") =>
                  /\ pc[t] = "idle"
                  /\ calls'[t] = calls[t] + 1
            /\ (pc'[t] = "handshake" /\ pc[t] # "handshake") =>
                  /\ pc[t] = "ensure_session"
                  /\ handshake_requests' = handshake_requests + 1
            /\ (pc[t] = "handshake" /\ pc'[t] # "handshake" /\ ~session_initialized') =>
                  /\ pc'[t] = "idle"
                  /\ handshake_requests' = handshake_requests
                  /\ Len(results'[t]) = calls[t]
                  /\ AcquisitionFailed(results'[t][Len(results'[t])])
            /\ (InCall(t) /\ ~InCall(t)') =>
                  /\ pc'[t] = "idle"
                  /\ results'[t] # results[t]
                  /\ SubSeq(results'[t], 1, Len(results[t])) = results[t]
            /\ calls'[t] # calls[t] => pc[t] = "idle"]_vars

\* two calls of one caller: the first ended AcquisitionFailed after one
\* handshake attempt, the second sent the handshake again and ended Matched
C25_Witness ==
    \E t \in Threads :
        /\ pc[t] = "idle"
        /\ calls[t] = 2
        /\ Len(results[t]) = 2
        /\ AcquisitionFailed(results[t][1])
        /\ Matched(results[t][2])
        /\ handshake_requests = 2

(***************************************************************************)
(* Calls after a failed acquisition                                        *)
(***************************************************************************)

\* the number of AcquisitionFailed verdicts the caller has got
RECURSIVE ErrorVerdicts(_)
ErrorVerdicts(rs) ==
    IF rs = <<>> THEN 0
    ELSE (IF rs[1].error_message # None THEN 1 ELSE 0) + ErrorVerdicts(Tail(rs))

\* C26: a handshake that raises ends the acquisition and leaves the cache
\* empty and the session not initialized; as long as the session is not
\* initialized every call of the caller has sent one handshake request and
\* has got one error verdict, N calls giving N requests and N error
\* verdicts; and once a handshake has succeeded the calls from that one on
\* get verdicts without an error.
C26_FailedAcquisitionRetriedByNextCall ==
    /\ [](/\ ~session_initialized =>
                /\ current_inmates = <<>>
                /\ \A t \in Threads :
                      /\ \A i \in 1..Len(results[t]) : AcquisitionFailed(results[t][i])
                      /\ pc[t] \in {"idle", "returned"} =>
                            /\ handshake_requests = calls[t]
                            /\ Len(results[t]) = calls[t]
          /\ \A t \in Threads :
                /\ handshake_requests =
                       ErrorVerdicts(results[t])
                       + (IF session_initialized \/ pc[t] = "handshake" THEN 1 ELSE 0)
                /\ \A i, j \in 1..Len(results[t]) :
                      (i < j /\ results[t][j].error_message # None) =>
                          results[t][i].error_message # None)
    /\ [][\A t \in Threads :
            /\ (pc[t] = "handshake" /\ pc'[t] = "idle") =>
                  /\ ~session_initialized'
                  /\ current_inmates' = <<>>
                  /\ AcquisitionFailed(results'[t][Len(results'[t])])
            /\ (session_initialized /\ Len(results'[t]) > Len(results[t])) =>
                  results'[t][Len(results'[t])].error_message = None]_vars

\* two calls got error verdicts from two handshake attempts and left the
\* client as it was constructed
C26_Witness ==
    \E t \in Threads :
        /\ calls[t] = 2
        /\ Len(results[t]) = 2
        /\ AcquisitionFailed(results[t][1])
        /\ AcquisitionFailed(results[t][2])
        /\ handshake_requests = 2
        /\ ~session_initialized
        /\ current_inmates = <<>>

(***************************************************************************)
(* A roster longer than max_batches batches                                *)
(***************************************************************************)

\* the last page an acquisition can request
LastPageRequested == max_batches * batch_size

\* every batch of the acquisition has a page that gives records
EveryBatchHasData == \A k \in 0..(max_batches - 1) : ~BatchYieldsNothing(k)

\* the subject is listed on a page beyond the last page requested and on no
\* page up to it
ListedOnlyBeyond(d) ==
    /\ \E p \in (LastPageRequested + 1)..NumPages :
          FullKey(d) \in DOMAIN PageValue(p)
    /\ \A p \in 1..LastPageRequested :
          /\ FullKey(d) \notin DOMAIN PageValue(p)
          /\ KeyWithoutMiddle(d) \notin DOMAIN PageValue(p)

\* C27: when every one of the max_batches batches has a page with records,
\* the acquisition stops after page max_batches * batch_size (60 in the
\* source), and the roster built from those pages is returned and cached as
\* the roster, without an error; the verdict of that call and of every later
\* call for a subject listed only on a page beyond is Unmatched without an
\* error message.
C27_TruncatedRosterPublished ==
    \A t \in Threads :
        (EveryBatchHasData /\ PostedPages(t) # {} /\ pc[t] \in {"idle", "returned"}) =>
            /\ PostedPages(t) = 1..LastPageRequested
            /\ roster_returned[t] # <<>>
            /\ current_inmates = roster_returned[t]
            /\ DOMAIN roster_returned[t][1] =
                   UNION {DOMAIN PageValue(p) : p \in 1..LastPageRequested}
            /\ \A i \in handshake_requests..Len(results[t]) :
                  /\ results[t][i].error_message = None
                  /\ ListedOnlyBeyond(defendants[t][i]) =>
                        /\ Unmatched(results[t][i])
                        /\ NoBookingDetail(results[t][i])

\* the endpoint holds a page beyond the last page requested; the call that
\* acquired the roster and a later call have both answered Unmatched for
\* the subject listed on that page
C27_Witness ==
    \E t \in Threads :
        /\ server.last_page = NumPages
        /\ EveryBatchHasData
        /\ ListedOnlyBeyond(SubjJoLee)
        /\ current_inmates # <<>>
        /\ Len(results[t]) = 2
        /\ defendants[t] = <<SubjJoLee, SubjJoLee>>
        /\ Unmatched(results[t][1])
        /\ Unmatched(results[t][2])
        /\ posted[t][NumPages] = 0

(***************************************************************************)
(* Matches on first and last name                                          *)
(***************************************************************************)

\* the roster holds a record with the subject's normalized last and first name
SameFirstAndLast(d, r) ==
    \E k \in DOMAIN r :
        normalize_name(r[k].last_name, r[k].first_name, <<>>) = KeyWithoutMiddle(d)

\* the verdicts of the caller that were answered from a roster: those from
\* the call whose handshake succeeded on
AnsweredFromRoster(t) ==
    IF roster_returned[t] = <<>> THEN {} ELSE handshake_requests..Len(results[t])

C29_VerdictFields ==
    \A t \in Threads : \A i \in 1..Len(results[t]) :
        LET v == results[t][i]
        IN  /\ v.in_custody =>
                  /\ v.error_message = None
                  /\ v.custody_location # None
                  /\ v.custody_location # <<>>
            /\ v.error_message # None =>
                  /\ ~v.in_custody
                  /\ v.booking_number = None
                  /\ v.booking_date = None
                  /\ v.charges_at_booking = None
                  /\ v.bond_amount = None
                  /\ v.mugshot_url = None

\* a caller holds an error verdict and a positive verdict that carries the
\* booking details of a roster record
C29_Witness ==
    \E t \in Threads : \E i, j \in 1..Len(results[t]) :
        /\ results[t][i].error_message # None
        /\ ~results[t][i].in_custody
        /\ results[t][j].in_custody
        /\ results[t][j].custody_location = CustodyLocation
        /\ results[t][j].booking_number = Bid1
        /\ results[t][j].bond_amount = Bond1

(***************************************************************************)
(* The counts of the report of a batch run                                 *)
(***************************************************************************)

\* the positions of the errored verdicts of the report
ErroredPositions ==
    {i \in 1..Len(rp_custody_results) :
        /\ rp_custody_results[i].error_message # None
        /\ rp_custody_results[i].error_message # <<>>}

\* the report was built from what check_custody_for_all returned to a caller
ReportOfBatchRun ==
    /\ rp_out # <<>>
    /\ \E t \in Threads :
          /\ pc[t] = "returned"
          /\ rp_defendants_checked = defendants[t]
          /\ rp_custody_results = results[t]

\* C30: in the report of a batch run every errored verdict is a verdict with
\* in_custody false and so is counted in not_in_custody_count as well as in
\* error_count: total_defendants = in_custody_count + not_in_custody_count
\* and error_count <= not_in_custody_count, and the three counts of verdicts
\* add up to total_defendants + error_count.
C30_ErrorsCountedAsNotInCustody ==
    rp_out # <<>> =>
        LET o == rp_out[1]
        IN  /\ ReportOfBatchRun
            /\ \A i \in ErroredPositions : ~rp_custody_results[i].in_custody
            /\ o.error_count = Cardinality(ErroredPositions)
            /\ o.total_defendants = o.in_custody_count + o.not_in_custody_count
            /\ o.error_count <= o.not_in_custody_count
            /\ o.in_custody_count + o.not_in_custody_count + o.error_count
                   = o.total_defendants + Cardinality(ErroredPositions)

\* the report of a run of two subjects, one verdict errored and one
\* positive: the counts 1, 1 and 1 for two subjects
C30_Witness ==
    /\ ReportOfBatchRun
    /\ rp_out[1].total_defendants = 2
    /\ rp_out[1].error_count = 1
    /\ rp_out[1].not_in_custody_count = 1
    /\ rp_out[1].in_custody_count = 1
=============================================================================
